---- MODULE Spec2Model ----
(***************************************************************************)
(* Model of the PDF risk analyzer: SimpleDocumentAnalyzer                  *)
(* (document_analyzer_simple.py) and MultimodalDocumentAnalyzer            *)
(* (document_analyzer.py).  Text is modelled as TLA+ strings, on which     *)
(* TLC evaluates Len, SubSeq, Head, Tail and \o; Python dicts are records  *)
(* and dict.get(k, default) is Get.  Floating point scores are kept in     *)
(* exact tenths or thousandths.                                            *)
(***************************************************************************)
EXTENDS Integers, Sequences, FiniteSets, TLC

VARIABLES
    pc,        \* position of the running call: "idle", a pipeline stage, "done"
    analyzer,  \* which entry point is running
    pdf,       \* the document behind pdf_path, as the PDF library presents it
    image,     \* what rendering and the detectors give for the first page
    results,   \* the results dict of analyze_document, as filled so far
    raised     \* the exception that reached the caller, or NoException

vars == <<pc, analyzer, pdf, image, results, raised>>

(***************************************************************************)
(* Python primitives.                                                      *)
(***************************************************************************)
Min(a, b) == IF a <= b THEN a ELSE b

Max(a, b) == IF a >= b THEN a ELSE b

\* dict.get(key, default)
Get(d, key, default) == IF key \in DOMAIN d THEN d[key] ELSE default

\* Optional values: None, or a value that is present.
None == <<>>

Some(v) == <<v>>

\* seq[:n]
\* a slice that keeps one more element
Take_one_more(seq, n) == SubSeq(seq, 1, Min(Len(seq), n + 1))

Take(seq, n) == SubSeq(seq, 1, Min(n, Len(seq)))

RECURSIVE SumSeq(_)
SumSeq(seq) == IF seq = <<>> THEN 0 ELSE Head(seq) + SumSeq(Tail(seq))

Char(s, i) == SubSeq(s, i, i)

UpperChars == "ABCDEFGHIJKLMNOPQRSTUVWXYZ"

LowerChars == "abcdefghijklmnopqrstuvwxyz"

LowerChar(c) ==
    IF \E i \in 1..26 : Char(UpperChars, i) = c
    THEN Char(LowerChars, CHOOSE i \in 1..26 : Char(UpperChars, i) = c)
    ELSE c

\* str.lower(), by halves
RECURSIVE Lower(_)
Lower(s) ==
    IF Len(s) <= 1 THEN LowerChar(s)
    ELSE Lower(SubSeq(s, 1, Len(s) \div 2)) \o Lower(SubSeq(s, Len(s) \div 2 + 1, Len(s)))

\* whether s has sub at position i
StartsAt(s, sub, i) ==
    /\ i >= 1
    /\ i + Len(sub) - 1 <= Len(s)
    /\ SubSeq(s, i, i + Len(sub) - 1) = sub

\* sub in s
Contains(s, sub) == \E i \in 1..(Len(s) + 1) : StartsAt(s, sub, i)

\* str.find(sub, i): the first index from i on where s has sub, or 0
Find(s, sub, i) ==
    LET last == Len(s) - Len(sub) + 1
    IN  IF \E j \in i..last : StartsAt(s, sub, j)
        THEN CHOOSE j \in i..last :
                 StartsAt(s, sub, j) /\ \A k \in i..(j - 1) : ~StartsAt(s, sub, k)
        ELSE 0

\* str.count(sub): non-overlapping occurrences, scanned from the left
RECURSIVE CountFrom(_, _, _)
CountFrom(s, sub, i) ==
    LET j == Find(s, sub, i)
    IN  IF j = 0 THEN 0 ELSE 1 + CountFrom(s, sub, j + Len(sub))

Count(s, sub) == CountFrom(s, sub, 1)

Digit == {"0", "1", "2", "3", "4", "5", "6", "7", "8", "9"}

DigitComma == Digit \cup {","}

Space == {" ", "\n", "\t"}

\* the index after the longest run of characters of chars that starts at i
RunEnd(s, i, chars) ==
    CHOOSE j \in i..Max(i, Len(s) + 1) :
        /\ (j > Len(s) \/ Char(s, j) \notin chars)
        /\ \A k \in i..(j - 1) : Char(s, k) \in chars

\* str.strip()
Strip(s) ==
    LET a == RunEnd(s, 1, Space)
        b == CHOOSE j \in 0..Len(s) :
                 /\ (j < a \/ Char(s, j) \notin Space)
                 /\ \A k \in (j + 1)..Len(s) : Char(s, k) \in Space
    IN  SubSeq(s, a, b)

\* str.split(sep) for a non-empty separator
RECURSIVE SplitFrom(_, _, _)
SplitFrom(s, sep, start) ==
    LET j == Find(s, sep, start)
    IN  IF j = 0 THEN <<SubSeq(s, start, Len(s))>>
        ELSE <<SubSeq(s, start, j - 1)>> \o SplitFrom(s, sep, j + Len(sep))

Split(s, sep) == SplitFrom(s, sep, 1)

\* len(str.split()): the number of maximal runs of non-whitespace
WordCount(s) ==
    Cardinality({i \in 1..Len(s) :
                    Char(s, i) \notin Space /\ (i = 1 \/ Char(s, i - 1) \in Space)})

(***************************************************************************)
(* SimpleDocumentAnalyzer: configuration (__init__).                       *)
(***************************************************************************)
risk_keywords ==
    <<"liability", "penalty", "breach", "termination", "indemnify",
      "damages", "lawsuit", "arbitration", "confidential", "proprietary",
      "non-compete", "exclusive", "irrevocable", "perpetual", "waive",
      "default", "violation", "prosecution", "negligence", "warranty">>

\* each pattern with the words that its \s+ separates
high_risk_patterns ==
    <<[pattern |-> "unlimited\\s+liability", words |-> <<"unlimited", "liability">>],
      [pattern |-> "personal\\s+guarantee", words |-> <<"personal", "guarantee">>],
      [pattern |-> "joint\\s+and\\s+several", words |-> <<"joint", "and", "several">>],
      [pattern |-> "automatic\\s+renewal", words |-> <<"automatic", "renewal">>],
      [pattern |-> "no\\s+right\\s+to\\s+terminate",
       words |-> <<"no", "right", "to", "terminate">>],
      [pattern |-> "waive\\s+all\\s+rights", words |-> <<"waive", "all", "rights">>]>>

(***************************************************************************)
(* Regular expressions of the extractors.  A matcher gives the index after *)
(* the match that starts at i, or 0 when there is none there; every        *)
(* quantifier is greedy and none of these patterns needs backtracking.     *)
(***************************************************************************)
\* \.?\d* from index i
DecimalsEnd(s, i) ==
    RunEnd(s, IF i <= Len(s) /\ Char(s, i) = "." THEN i + 1 ELSE i, Digit)

\* [\d,]+\.?\d* from index i
NumberEnd(s, i) ==
    LET a == RunEnd(s, i, DigitComma) IN IF a = i THEN 0 ELSE DecimalsEnd(s, a)

\* \$[\d,]+\.?\d*[MKB]?  (IGNORECASE)
MatchDollar(s, i) ==
    IF ~StartsAt(s, "$", i) THEN 0
    ELSE LET c == NumberEnd(s, i + 1)
         IN  IF c = 0 THEN 0
             ELSE IF c <= Len(s) /\ LowerChar(Char(s, c)) \in {"m", "k", "b"}
                  THEN c + 1 ELSE c

\* \d+\s*(?:million|thousand|billion|dollars|usd)  (IGNORECASE)
MatchNumberWord(s, i, units) ==
    LET a == RunEnd(s, i, Digit)
        b == RunEnd(s, a, Space)
        low == Lower(SubSeq(s, b, Min(Len(s), b + 8)))
        hits == {k \in 1..Len(units) : StartsAt(low, units[k], 1)}
    IN  IF a = i \/ hits = {} THEN 0
        ELSE b + Len(units[CHOOSE k \in hits : \A h \in hits : k <= h])

\* USD\s*[\d,]+\.?\d*  (IGNORECASE)
MatchUsd(s, i) ==
    IF i + 2 <= Len(s) /\ Lower(SubSeq(s, i, i + 2)) = "usd"
    THEN NumberEnd(s, RunEnd(s, i + 3, Space))
    ELSE 0

\* [€£¥]\s*[\d,]+\.?\d*
MatchCurrencySign(s, i) ==
    IF i <= Len(s) /\ Char(s, i) \in {"€", "£", "¥"}
    THEN NumberEnd(s, RunEnd(s, i + 1, Space))
    ELSE 0

simple_money_units == <<"million", "thousand", "billion", "dollars", "usd">>

\* money_patterns, by position in the list
MatchMoney(rule, s, i) ==
    CASE rule = 1 -> MatchDollar(s, i)
      [] rule = 2 -> MatchNumberWord(s, i, simple_money_units)
      [] rule = 3 -> MatchUsd(s, i)
      [] rule = 4 -> MatchCurrencySign(s, i)

\* the first index from i on where the rule matches, or 0
SearchMoney(rule, s, i) ==
    IF \E j \in i..Len(s) : MatchMoney(rule, s, j) > 0
    THEN CHOOSE j \in i..Len(s) :
             MatchMoney(rule, s, j) > 0 /\ \A k \in i..(j - 1) : MatchMoney(rule, s, k) = 0
    ELSE 0

\* re.findall(money_patterns[rule], s, re.IGNORECASE) from index i on
RECURSIVE FindAllMoney(_, _, _)
FindAllMoney(rule, s, i) ==
    LET j == SearchMoney(rule, s, i)
    IN  IF j = 0 THEN <<>>
        ELSE <<SubSeq(s, j, MatchMoney(rule, s, j) - 1)>>
             \o FindAllMoney(rule, s, MatchMoney(rule, s, j))

\* the words of a high-risk pattern, \s+ between them, in lowered text low
RECURSIVE MatchWords(_, _, _)
MatchWords(low, i, words) ==
    IF ~StartsAt(low, Head(words), i) THEN 0
    ELSE LET e == i + Len(Head(words))
             g == RunEnd(low, e, Space)
         IN  IF Len(words) = 1 THEN e
             ELSE IF g = e THEN 0
             ELSE MatchWords(low, g, Tail(words))

\* re.finditer(pattern, text, re.IGNORECASE): <<start, end>> of each match
RECURSIVE FindIterWords(_, _, _)
FindIterWords(low, i, words) ==
    LET j == Find(low, Head(words), i)
    IN  IF j = 0 THEN <<>>
        ELSE IF MatchWords(low, j, words) > 0
        THEN <<<<j, MatchWords(low, j, words)>>>>
             \o FindIterWords(low, MatchWords(low, j, words), words)
        ELSE FindIterWords(low, j + 1, words)

\* the concatenation of the sequences of a sequence
RECURSIVE Flatten(_)
Flatten(seqs) == IF seqs = <<>> THEN <<>> ELSE Head(seqs) \o Flatten(Tail(seqs))

(***************************************************************************)
(* Regular expressions that backtrack (dates, e-mail addresses).  A piece  *)
(* of a pattern gives the indexes after its possible matches from i, in    *)
(* the order the matcher tries them: the longest first for a greedy        *)
(* quantifier, the alternatives of a group from left to right.             *)
(***************************************************************************)
Letters ==
    {Char(UpperChars, k) : k \in 1..26} \cup {Char(LowerChars, k) : k \in 1..26}

\* \w
WordChars == Letters \cup Digit \cup {"_"}

IsWordAt(s, i) == i >= 1 /\ i <= Len(s) /\ Char(s, i) \in WordChars

\* \b before index i
Boundary(s, i) == IsWordAt(s, i - 1) # IsWordAt(s, i)

\* a piece [chars]{lo,hi} of a pattern; without upper limit when ~bounded
Piece(chars, lo, hi) == [chars |-> chars, lo |-> lo, hi |-> hi, bounded |-> TRUE]

\* [chars]{lo,}
AtLeast(chars, lo) == [chars |-> chars, lo |-> lo, hi |-> lo, bounded |-> FALSE]

\* the indexes after the matches of a greedy piece from i, the longest first
Greedy(s, i, piece) ==
    LET most == RunEnd(s, i, piece.chars) - i
        run == IF piece.bounded THEN Min(most, piece.hi) ELSE most
    IN  [k \in 1..(run - piece.lo + 1) |-> i + run - k + 1]

\* the indexes after the matches of a sequence of pieces from i, in the order
\* in which backtracking finds them
RECURSIVE PatternEnds(_, _, _)
PatternEnds(s, i, pieces) ==
    IF pieces = <<>> THEN <<i>>
    ELSE LET ends == Greedy(s, i, Head(pieces))
         IN  Flatten([k \in 1..Len(ends) |-> PatternEnds(s, ends[k], Tail(pieces))])

DateSeparator == Piece({"-", "/"}, 1, 1)

\* \d{1,2}[-/]\d{1,2}[-/]\d{2,4}
DayMonthYear ==
    <<Piece(Digit, 1, 2), DateSeparator, Piece(Digit, 1, 2), DateSeparator,
      Piece(Digit, 2, 4)>>

\* \d{4}[-/]\d{1,2}[-/]\d{1,2}
YearMonthDay ==
    <<Piece(Digit, 4, 4), DateSeparator, Piece(Digit, 1, 2), DateSeparator,
      Piece(Digit, 1, 2)>>

MonthNames ==
    {"jan", "feb", "mar", "apr", "may", "jun", "jul", "aug", "sep", "oct", "nov", "dec"}

\* [a-z]* \d{1,2},? \d{4}, what follows the month name (IGNORECASE)
AfterMonthName ==
    <<AtLeast(Letters, 0), Piece({" "}, 1, 1), Piece(Digit, 1, 2), Piece({","}, 0, 1),
      Piece({" "}, 1, 1), Piece(Digit, 4, 4)>>

\* (?:Jan|...|Dec)[a-z]* \d{1,2},? \d{4}  (IGNORECASE)
MonthDayYearEnds(s, i) ==
    IF i + 2 <= Len(s) /\ Lower(SubSeq(s, i, i + 2)) \in MonthNames
    THEN PatternEnds(s, i + 3, AfterMonthName)
    ELSE <<>>

\* the first of the ends that is at a word boundary, or 0
FirstAtBoundary(s, ends) ==
    LET ok == {k \in 1..Len(ends) : Boundary(s, ends[k])}
    IN  IF ok = {} THEN 0 ELSE ends[CHOOSE k \in ok : \A h \in ok : k <= h]

\* date_pattern at index i: the index after the match, or 0
MatchDate(s, i) ==
    IF Boundary(s, i)
    THEN FirstAtBoundary(s, PatternEnds(s, i, DayMonthYear)
                            \o PatternEnds(s, i, YearMonthDay)
                            \o MonthDayYearEnds(s, i))
    ELSE 0

LocalChars == Letters \cup Digit \cup {".", "_", "%", "+", "-"}

DomainChars == Letters \cup Digit \cup {".", "-"}

\* [A-Z|a-z]
TldChars == Letters \cup {"|"}

\* [A-Za-z0-9._%+-]+@[A-Za-z0-9.-]+\.[A-Z|a-z]{2,}
EmailPieces ==
    <<AtLeast(LocalChars, 1), Piece({"@"}, 1, 1), AtLeast(DomainChars, 1),
      Piece({"."}, 1, 1), AtLeast(TldChars, 2)>>

\* email_pattern at index i: the index after the match, or 0
MatchEmail(s, i) ==
    IF Boundary(s, i) THEN FirstAtBoundary(s, PatternEnds(s, i, EmailPieces)) ELSE 0

\* date_pattern or email_pattern, by name
MatchPattern(name, s, i) ==
    IF name = "date" THEN MatchDate(s, i) ELSE MatchEmail(s, i)

\* the first index from i on where the pattern matches, or 0
SearchPattern(name, s, i) ==
    IF \E j \in i..Len(s) : MatchPattern(name, s, j) > 0
    THEN CHOOSE j \in i..Len(s) :
             MatchPattern(name, s, j) > 0
             /\ \A k \in i..(j - 1) : MatchPattern(name, s, k) = 0
    ELSE 0

\* re.findall(pattern, s) from index i on
RECURSIVE FindAllPattern(_, _, _)
FindAllPattern(name, s, i) ==
    LET j == SearchPattern(name, s, i)
    IN  IF j = 0 THEN <<>>
        ELSE <<SubSeq(s, j, MatchPattern(name, s, j) - 1)>>
             \o FindAllPattern(name, s, MatchPattern(name, s, j))

(***************************************************************************)
(* SimpleDocumentAnalyzer: text feature extraction.                        *)
(***************************************************************************)
EmptyDict == [k \in {} |-> 0]

\* the sections of one high-risk pattern: a context of 100 characters around
\* each match
PatternSections(text, p) ==
    LET found == FindIterWords(Lower(text), 1, p.words)
    IN  [k \in 1..Len(found) |->
            LET start == Max(0, (found[k][1] - 1) - 100)
                end == Min(Len(text), (found[k][2] - 1) + 100)
            IN  [pattern |-> p.pattern,
                 context |-> Strip(SubSeq(text, start + 1, end)),
                 risk_level |-> "HIGH"]]

\* the number of distinct risk keywords in a paragraph
ParagraphRiskCount(para, keywords) ==
    Cardinality({k \in 1..Len(keywords) : Contains(Lower(para), keywords[k])})

\* the section of one paragraph, if it has 3 risk keywords or more
ParagraphSections(para) ==
    LET risk_count == ParagraphRiskCount(para, risk_keywords)
    IN  IF risk_count >= 3
        THEN <<[pattern |-> ToString(risk_count) \o " risk keywords",
                context |-> IF Len(para) > 300 THEN SubSeq(para, 1, 300) \o "..." ELSE para,
                risk_level |-> IF risk_count < 5 THEN "MEDIUM" ELSE "HIGH"]>>
        ELSE <<>>

\* the paragraph pass before the pattern pass
find_high_risk_sections_paragraphs_first(text) ==
    LET paragraphs == Split(text, "\n\n")
        sections ==
            Flatten([k \in 1..Len(paragraphs) |-> ParagraphSections(paragraphs[k])])
            \o Flatten([k \in 1..Len(high_risk_patterns) |->
                           PatternSections(text, high_risk_patterns[k])])
    IN  Take(sections, 10)

find_high_risk_sections(text) ==
    LET paragraphs == Split(text, "\n\n")
        sections ==
            Flatten([k \in 1..Len(high_risk_patterns) |->
                        PatternSections(text, high_risk_patterns[k])])
            \o Flatten([k \in 1..Len(paragraphs) |-> ParagraphSections(paragraphs[k])])
    IN  Take(sections, 10)

\* the text of the pages that have any, each followed by a newline
RECURSIVE simple_full_text(_)
simple_full_text(pages) ==
    IF pages = <<>> THEN ""
    ELSE (IF Head(pages) # None /\ Head(pages)[1] # ""
          THEN Head(pages)[1] \o "\n" ELSE "")
         \o simple_full_text(Tail(pages))

signature_indicators ==
    <<"signature", "signed by", "authorized signature", "/s/", "by:", "name:">>

\* keyword_counts: the keywords that occur, each with its count
keyword_breakdown(text_lower) ==
    [keyword \in {risk_keywords[k] : k \in {j \in 1..Len(risk_keywords) :
                                               Count(text_lower, risk_keywords[j]) > 0}}
        |-> Count(text_lower, keyword)]

\* total_risk_keywords counting each keyword that occurs once
total_risk_keywords_presence(text_lower) ==
    SumSeq([k \in 1..Len(risk_keywords) |->
               IF Count(text_lower, risk_keywords[k]) > 0 THEN 1 ELSE 0])

\* total_risk_keywords: the counts above 0 added up along the keyword list
total_risk_keywords(text_lower) ==
    SumSeq([k \in 1..Len(risk_keywords) |->
               LET count == Count(text_lower, risk_keywords[k])
               IN  IF count > 0 THEN count ELSE 0])

\* the body of extract_text_features once the text of the pages is read
simple_text_features(full_text, page_count) ==
    LET text_lower == Lower(full_text)
        keyword_counts == keyword_breakdown(text_lower)
        monetary_amounts == Flatten([rule \in 1..4 |-> FindAllMoney(rule, full_text, 1)])
        signature_count ==
            Cardinality({k \in 1..Len(signature_indicators) :
                            Contains(text_lower, signature_indicators[k])})
    IN  [total_characters |-> Len(full_text),
         total_words |-> WordCount(full_text),
         page_count |-> page_count,
         risk_keywords_found |-> total_risk_keywords(text_lower),
         keyword_breakdown |-> keyword_counts,
         monetary_amounts |-> Take(monetary_amounts, 10),
         dates_found |-> Take(FindAllPattern("date", full_text, 1), 10),
         emails_found |-> Take(FindAllPattern("email", full_text, 1), 5),
         signature_indicators |-> signature_count,
         high_risk_sections |-> find_high_risk_sections(full_text)]

\* extract_text_features: any exception of the PDF library is caught
simple_extract_text_features(doc) ==
    IF doc.readable
    THEN simple_text_features(simple_full_text(doc.pages), Len(doc.pages))
    ELSE [error |-> "PdfReadError", risk_keywords_found |-> 0]

\* str(value) if metadata and value else 'Unknown'
MetadataField(metadata, field) ==
    IF metadata # None /\ metadata[1][field] # None /\ metadata[1][field][1] # ""
    THEN metadata[1][field][1] ELSE "Unknown"

\* extract_metadata: any exception of the PDF library is caught
extract_metadata(doc) ==
    IF doc.readable
    THEN [pages |-> Len(doc.pages),
          title |-> MetadataField(doc.metadata, "title"),
          author |-> MetadataField(doc.metadata, "author"),
          subject |-> MetadataField(doc.metadata, "subject"),
          creator |-> MetadataField(doc.metadata, "creator"),
          producer |-> MetadataField(doc.metadata, "producer"),
          creation_date |-> MetadataField(doc.metadata, "creation_date"),
          modification_date |-> MetadataField(doc.metadata, "modification_date"),
          encrypted |-> doc.is_encrypted]
    ELSE [error |-> "PdfReadError"]

(***************************************************************************)
(* SimpleDocumentAnalyzer: risk assessment.                                *)
(***************************************************************************)
\* Keyword risk (0-40 points)
keyword_risk(text_analysis) ==
    Min(40, Get(text_analysis, "risk_keywords_found", 0) * 2)

\* 'million' in amount.lower() or 'M' in amount
is_high_amount_lowercase_m(amount) ==
    Contains(Lower(amount), "million") \/ Contains(Lower(amount), "m")

is_high_amount(amount) ==
    Contains(Lower(amount), "million") \/ Contains(amount, "M")

\* Financial risk (0-30 points)
financial_risk_additive(text_analysis) ==
    LET monetary_amounts == Get(text_analysis, "monetary_amounts", <<>>)
    IN  IF monetary_amounts = <<>> THEN 0
        ELSE Min(30, Len(monetary_amounts) * 5)
             + (IF \E i \in 1..Len(monetary_amounts) : is_high_amount(monetary_amounts[i])
                THEN 30 ELSE 0)

financial_risk(text_analysis) ==
    LET monetary_amounts == Get(text_analysis, "monetary_amounts", <<>>)
    IN  IF monetary_amounts = <<>> THEN 0
        ELSE IF \E i \in 1..Len(monetary_amounts) : is_high_amount(monetary_amounts[i])
             THEN 30
             ELSE Min(30, Len(monetary_amounts) * 5)

\* two points for a section
compliance_risk_two_per_section(text_analysis) ==
    Min(20, Len(Get(text_analysis, "high_risk_sections", <<>>)) * 2)

\* Compliance risk (0-20 points)
compliance_risk(text_analysis) ==
    Min(20, Len(Get(text_analysis, "high_risk_sections", <<>>)) * 4)

\* Signature risk (0-10 points)
signature_risk_always(text_analysis) == 10

signature_risk(text_analysis) ==
    IF Get(text_analysis, "signature_indicators", 0) = 0 THEN 10 ELSE 0

\* Determine risk level
risk_level_strict(overall) ==
    IF overall > 70 THEN "HIGH" ELSE IF overall > 40 THEN "MEDIUM" ELSE "LOW"

risk_level(overall) ==
    IF overall >= 70 THEN "HIGH" ELSE IF overall >= 40 THEN "MEDIUM" ELSE "LOW"

assess_risks(text_analysis) ==
    LET risk_scores == [keyword_risk |-> keyword_risk(text_analysis),
                        financial_risk |-> financial_risk(text_analysis),
                        compliance_risk |-> compliance_risk(text_analysis),
                        signature_risk |-> signature_risk(text_analysis)]
        overall == SumSeq(<<risk_scores.keyword_risk, risk_scores.financial_risk,
                            risk_scores.compliance_risk, risk_scores.signature_risk>>)
    IN  [keyword_risk |-> risk_scores.keyword_risk,
         financial_risk |-> risk_scores.financial_risk,
         compliance_risk |-> risk_scores.compliance_risk,
         signature_risk |-> risk_scores.signature_risk,
         overall_risk |-> overall,
         risk_level |-> risk_level(overall)]

(***************************************************************************)
(* SimpleDocumentAnalyzer: recommendations.  The strings are the source's  *)
(* without their leading pictograph.                                       *)
(***************************************************************************)
\* one line for each level
simple_level_lines_one_each(level) ==
    IF level = "HIGH"
    THEN <<"HIGH RISK: Strongly recommend legal review before signing">>
    ELSE IF level = "MEDIUM"
    THEN <<"MEDIUM RISK: Review highlighted sections carefully">>
    ELSE <<"LOW RISK: Document appears standard, but always review before signing">>

simple_level_lines(level) ==
    IF level = "HIGH"
    THEN <<"HIGH RISK: Strongly recommend legal review before signing",
           "Multiple risk factors detected - proceed with extreme caution">>
    ELSE IF level = "MEDIUM"
    THEN <<"MEDIUM RISK: Review highlighted sections carefully",
           "Consider consulting legal counsel for specific clauses">>
    ELSE <<"LOW RISK: Document appears standard, but always review before signing">>

\* <<line>> if the condition holds, nothing otherwise
When(condition, line) == IF condition THEN <<line>> ELSE <<>>

\* the financial advisory only above 20
simple_generate_recommendations_above_20(res) ==
    LET risk_assessment == res.risk_assessment
        text_analysis == res.text_analysis
        keywords == DOMAIN Get(text_analysis, "keyword_breakdown", EmptyDict)
    IN  simple_level_lines(risk_assessment.risk_level)
        \o When(risk_assessment.signature_risk > 0,
                "No signature indicators found - ensure proper execution")
        \o When(risk_assessment.financial_risk > 20,
                "High financial exposure detected - verify all monetary commitments")
        \o When(risk_assessment.compliance_risk >= 15,
                "Multiple compliance concerns - ensure regulatory alignment")
        \o When(Len(Get(text_analysis, "high_risk_sections", <<>>)) > 5,
                "Numerous high-risk sections found - detailed review essential")
        \o When("indemnify" \in keywords \/ "indemnification" \in keywords,
                "Indemnification clauses present - review liability exposure")
        \o When("termination" \in keywords,
                "Review termination clauses and exit strategies")
        \o When("confidential" \in keywords \/ "proprietary" \in keywords,
                "Confidentiality obligations present - ensure compliance capability")

simple_generate_recommendations(res) ==
    LET risk_assessment == res.risk_assessment
        text_analysis == res.text_analysis
        keywords == DOMAIN Get(text_analysis, "keyword_breakdown", EmptyDict)
    IN  simple_level_lines(risk_assessment.risk_level)
        \o When(risk_assessment.signature_risk > 0,
                "No signature indicators found - ensure proper execution")
        \o When(risk_assessment.financial_risk >= 20,
                "High financial exposure detected - verify all monetary commitments")
        \o When(risk_assessment.compliance_risk >= 15,
                "Multiple compliance concerns - ensure regulatory alignment")
        \o When(Len(Get(text_analysis, "high_risk_sections", <<>>)) > 5,
                "Numerous high-risk sections found - detailed review essential")
        \o When("indemnify" \in keywords \/ "indemnification" \in keywords,
                "Indemnification clauses present - review liability exposure")
        \o When("termination" \in keywords,
                "Review termination clauses and exit strategies")
        \o When("confidential" \in keywords \/ "proprietary" \in keywords,
                "Confidentiality obligations present - ensure compliance capability")

(***************************************************************************)
(* MultimodalDocumentAnalyzer: configuration and text features.            *)
(***************************************************************************)
multi_risk_keywords ==
    <<"liability", "penalty", "breach", "termination", "indemnify",
      "damages", "lawsuit", "arbitration", "confidential", "proprietary",
      "non-compete", "exclusive", "irrevocable", "perpetual">>

multi_money_units == <<"million", "thousand", "billion">>

\* \$[\d,]+\.?\d*[MKB]?|\d+\s*(?:million|thousand|billion)  (IGNORECASE)
MatchMultiMoney(s, i) ==
    LET e == MatchDollar(s, i)
    IN  IF e > 0 THEN e ELSE MatchNumberWord(s, i, multi_money_units)

\* the first index from i on where money_pattern matches, or 0
SearchMultiMoney(s, i) ==
    IF \E j \in i..Len(s) : MatchMultiMoney(s, j) > 0
    THEN CHOOSE j \in i..Len(s) :
             MatchMultiMoney(s, j) > 0 /\ \A k \in i..(j - 1) : MatchMultiMoney(s, k) = 0
    ELSE 0

RECURSIVE FindAllMultiMoney(_, _)
FindAllMultiMoney(s, i) ==
    LET j == SearchMultiMoney(s, i)
    IN  IF j = 0 THEN <<>>
        ELSE <<SubSeq(s, j, MatchMultiMoney(s, j) - 1)>>
             \o FindAllMultiMoney(s, MatchMultiMoney(s, j))

\* ' '.join(lines)
RECURSIVE JoinSpace(_)
JoinSpace(lines) ==
    IF lines = <<>> THEN ""
    ELSE IF Len(lines) = 1 THEN lines[1]
    ELSE lines[1] \o " " \o JoinSpace(Tail(lines))

\* the lines with 2 risk keywords or more, each with its neighbours; top 3
multi_find_high_risk_sections(text) ==
    LET lines == Split(text, "\n")
        risky == SelectSeq([i \in 1..Len(lines) |-> i],
                           LAMBDA i : ParagraphRiskCount(lines[i], multi_risk_keywords) >= 2)
        sections ==
            [k \in 1..Len(risky) |->
                LET i == risky[k] - 1
                    context == JoinSpace(SubSeq(lines, Max(0, i - 1) + 1,
                                                Min(Len(lines), i + 2)))
                IN  Take(context, 200) \o "..."]
    IN  Take(sections, 3)

\* the text of the pages, each followed by a newline
RECURSIVE multi_full_text(_)
multi_full_text(pages) ==
    IF pages = <<>> THEN ""
    ELSE Head(pages)[1] \o "\n" \o multi_full_text(Tail(pages))

\* the body of extract_text_features once the text of the pages is read
multi_text_features(full_text, page_count) ==
    LET text_lower == Lower(full_text)
        risk_keyword_count ==
            SumSeq([k \in 1..Len(multi_risk_keywords) |->
                       Count(text_lower, multi_risk_keywords[k])])
    IN  [page_count |-> page_count,
         total_words |-> WordCount(full_text),
         risk_keywords_found |-> risk_keyword_count,
         monetary_amounts |-> Take(FindAllMultiMoney(full_text, 1), 5),
         text_risk_score |-> Min(100, risk_keyword_count * 5),
         high_risk_sections |-> multi_find_high_risk_sections(full_text)]

\* the exception extract_text_features lets through for a document, if any:
\* the PDF library's on an unreadable file, TypeError on None + "\n"
multi_text_exception(doc) ==
    IF ~doc.readable THEN "PdfReadError"
    ELSE IF \E n \in 1..Len(doc.pages) : doc.pages[n] = None THEN "TypeError"
    ELSE "NoException"

multi_extract_text_features(doc) ==
    multi_text_features(multi_full_text(doc.pages), Len(doc.pages))

(***************************************************************************)
(* MultimodalDocumentAnalyzer: visual features.  An image is what the      *)
(* OpenCV primitives report for it: the contours of its edge map, the      *)
(* circles of the Hough transform, the ink density of its four quadrants   *)
(* in units of 1/DensityScale, whether the colour histogram peaks above 10 *)
(* times its mean, and the number of ORB keypoints.                        *)
(***************************************************************************)
detect_signature_regions(img) ==
    SelectSeq(img.contours,
              LAMBDA c : /\ c.area > 5000
                         /\ c.h > 0
                         /\ 2 * c.h <= c.w
                         /\ c.w <= 6 * c.h)

\* HoughCircles gives None when it finds no circle
detect_stamp_regions(img) == IF img.circles # None THEN img.circles[1] ELSE <<>>

\* the least n with n * n * d >= q, for d > 0 and n in lo..hi
RECURSIVE CeilSqrtRatio(_, _, _, _)
CeilSqrtRatio(q, d, lo, hi) ==
    IF lo >= hi THEN lo
    ELSE LET mid == (lo + hi) \div 2
         IN  IF mid * mid * d >= q THEN CeilSqrtRatio(q, d, lo, mid)
             ELSE CeilSqrtRatio(q, d, mid + 1, hi)

\* the consistency itself, not the ratio, replaced by 0 on a blank page
layout_consistency_raw_blank_zero(densities) ==
    LET total == SumSeq(densities)
        spread == 4 * SumSeq([k \in 1..4 |-> densities[k] * densities[k]]) - total * total
    IN  IF total > 0
        THEN 1000 - CeilSqrtRatio(1000000 * spread, total * total, 0, 2000)
        ELSE 0

\* 1 - std/mean in thousandths, rounded down; std/mean of four densities is
\* sqrt(4 * sum of squares - square of sum) / sum, and at most sqrt(3)
layout_consistency_raw(densities) ==
    LET total == SumSeq(densities)
        spread == 4 * SumSeq([k \in 1..4 |-> densities[k] * densities[k]]) - total * total
    IN  1000 - (IF total > 0
                THEN CeilSqrtRatio(1000000 * spread, total * total, 0, 2000)
                ELSE 0)

analyze_layout_consistency_unclamped(img) == layout_consistency_raw(img.densities)

\* min(1.0, max(0.0, consistency)), in thousandths
analyze_layout_consistency(img) ==
    Min(1000, Max(0, layout_consistency_raw(img.densities)))

detect_visual_anomalies(img) ==
    When(img.hist_peaked, "Unusual color concentration detected")
    \o When(img.keypoints > 500, "High number of similar features (possible copy-paste)")

\* the visual risk score of the detections
visual_risk_score_no_stamps(signatures, stamps, layout_score) ==
    (IF Len(signatures) = 0 THEN 30 ELSE 0)
    + (IF layout_score < 700 THEN 25 ELSE 0)

visual_risk_score(signatures, stamps, layout_score) ==
    (IF Len(signatures) = 0 THEN 30 ELSE 0)
    + (IF Len(stamps) > 2 THEN 20 ELSE 0)
    + (IF layout_score < 700 THEN 25 ELSE 0)

\* extract_visual_features: what it returns for a rendering outcome.
\* layout_consistency_score is round(layout_score, 2), in hundredths.
extract_visual_features(render) ==
    IF render.outcome = "raises"
    THEN [error |-> "PDFInfoNotInstalledError", visual_risk_score |-> 50]
    ELSE IF render.outcome = "empty"
    THEN [error |-> "Could not convert PDF to image"]
    ELSE IF render.image.malformed
    THEN [error |-> "cv2.error", visual_risk_score |-> 50]
    ELSE LET signatures == detect_signature_regions(render.image)
             stamps == detect_stamp_regions(render.image)
             layout_score == analyze_layout_consistency(render.image)
         IN  [signatures_detected |-> Len(signatures),
              stamps_detected |-> Len(stamps),
              layout_consistency_score |-> (layout_score + 5) \div 10,
              visual_risk_score |-> visual_risk_score(signatures, stamps, layout_score),
              anomalies |-> detect_visual_anomalies(render.image)]

(***************************************************************************)
(* MultimodalDocumentAnalyzer: combined score, in tenths, and              *)
(* recommendations (without their leading pictograph).                     *)
(***************************************************************************)
calculate_combined_risk_unclamped(text_features, visual_features) ==
    Get(text_features, "text_risk_score", 0) * 6
    + Get(visual_features, "visual_risk_score", 0) * 4
    + (IF Get(visual_features, "signatures_detected", 0) = 0 THEN 100 ELSE 0)
    + (IF Len(Get(text_features, "monetary_amounts", <<>>)) > 3 THEN 50 ELSE 0)

\* a missing signature count taken as one signature
calculate_combined_risk_default_signed(text_features, visual_features) ==
    LET combined == Get(text_features, "text_risk_score", 0) * 6
                    + Get(visual_features, "visual_risk_score", 0) * 4
                    + (IF Get(visual_features, "signatures_detected", 1) = 0
                       THEN 100 ELSE 0)
                    + (IF Len(Get(text_features, "monetary_amounts", <<>>)) > 3
                       THEN 50 ELSE 0)
    IN  Min(1000, combined)

calculate_combined_risk(text_features, visual_features) ==
    LET combined == Get(text_features, "text_risk_score", 0) * 6
                    + Get(visual_features, "visual_risk_score", 0) * 4
                    + (IF Get(visual_features, "signatures_detected", 0) = 0
                       THEN 100 ELSE 0)
                    + (IF Len(Get(text_features, "monetary_amounts", <<>>)) > 3
                       THEN 50 ELSE 0)
    IN  Min(1000, combined)

\* the levels above their thresholds only
multi_generate_recommendations_strict(res) ==
    LET risk_score == res.combined_risk_score
    IN  (IF risk_score > 700
         THEN <<"HIGH RISK: Recommend legal review before signing">>
         ELSE IF risk_score > 400
         THEN <<"MEDIUM RISK: Review highlighted sections carefully">>
         ELSE <<"LOW RISK: Standard document, safe to proceed">>)
        \o When(Get(res.visual_analysis, "signatures_detected", 0) = 0,
                "No signatures detected - ensure proper signing")
        \o When(Len(Get(res.text_analysis, "high_risk_sections", <<>>)) > 0,
                "Review high-risk sections for unfavorable terms")
        \o When(Get(res.visual_analysis, "anomalies", <<>>) # <<>>,
                "Visual anomalies detected - verify document authenticity")

multi_generate_recommendations(res) ==
    LET risk_score == res.combined_risk_score
    IN  (IF risk_score >= 700
         THEN <<"HIGH RISK: Recommend legal review before signing">>
         ELSE IF risk_score >= 400
         THEN <<"MEDIUM RISK: Review highlighted sections carefully">>
         ELSE <<"LOW RISK: Standard document, safe to proceed">>)
        \o When(Get(res.visual_analysis, "signatures_detected", 0) = 0,
                "No signatures detected - ensure proper signing")
        \o When(Len(Get(res.text_analysis, "high_risk_sections", <<>>)) > 0,
                "Review high-risk sections for unfavorable terms")
        \o When(Get(res.visual_analysis, "anomalies", <<>>) # <<>>,
                "Visual anomalies detected - verify document authenticity")

(***************************************************************************)
(* Documents: what the PDF library gives for pdf_path.  A page's           *)
(* extract_text() gives a string or None.                                  *)
(***************************************************************************)
MaxPages == 2

SimplePageTexts ==
    {"",
     "Liability, liability, breach",
     "Signed by: A\n\n$1,000 $2.50 $3K",
     "pay 5 Million",
     "$4M fee",
     "$7m, USD 20, 5 THOUSAND",
     "unlimited  liability\n\npenalty, damages, default: terminations"}

SampleMetadata ==
    Some([title |-> Some("NDA"), author |-> Some(""), subject |-> None,
          creator |-> None, producer |-> Some("pdf"), creation_date |-> None,
          modification_date |-> None])

\* sequences of up to MaxPages pages
PageLists(texts) ==
    UNION {[1..n -> {Some(t) : t \in texts} \cup {None}] : n \in 0..MaxPages}

UnreadablePdf ==
    [readable |-> FALSE, pages |-> <<>>, metadata |-> None, is_encrypted |-> FALSE]

\* n copies of s, each followed by a space
RECURSIVE Repeat(_, _)
Repeat(s, n) == IF n = 0 THEN "" ELSE s \o " " \o Repeat(s, n - 1)

\* six matches of a high-risk pattern, without and with an amount in millions
ManySectionsText == Repeat("unlimited liability", 6)

HighRiskText == "$5M " \o ManySectionsText

\* two patterns out of list order, then paragraphs with 5, 3 and 2 keywords
MixedSectionsText ==
    "waive all rights, Waive  all rights: unlimited liability\n\n"
    \o "breach, penalty, damages, default, lawsuit\n\n"
    \o "penalty, damages, default\n\nbreach, penalty"

\* 12 amounts, the rules out of text order
ManyAmountsText == "€4; USD 3, 2 million: $1 $2 $3 $4 $5 $6 $7 $8 $9"

\* 11 dates and a date that is none
ManyDatesText ==
    "1/2/20245 Jan 5, 2024 2024-01-02 3/1/01 4/1/01 5/1/01 6/1/01 7/1/01 8/1/01 "
    \o "9/1/01 10/1/01 11/1/01 12-1-2001"

\* 6 e-mail addresses
ManyEmailsText == "a@b.co d@e.fg. h@i.j.kl l@m.n, p@q.rs t@u.vw x@y.zz"

\* longer documents, page by page
SimpleSampleDocuments ==
    {<<Some(HighRiskText)>>,
     <<Some(ManyAmountsText)>>,
     <<Some(ManyDatesText)>>,
     <<Some(ManyEmailsText)>>,
     <<Some(ManyEmailsText), Some("$1 $2 $3 $4")>>,
     <<Some(MixedSectionsText)>>,
     <<Some(ManySectionsText), Some(MixedSectionsText)>>,
     <<Some(HighRiskText), Some(ManySectionsText)>>,
     <<Some("$1 $2 $3 $4")>>,
     <<Some("indemnify, Confidential")>>,
     <<Some("Indemnification; proprietary")>>,
     <<Some("indemnify, Confidential"), Some("Indemnification; proprietary")>>,
     <<Some(HighRiskText), Some("indemnify, Confidential termination")>>}
    \cup {<<Some(Repeat("unlimited liability", n))>> : n \in 3..6}

SimplePdfs ==
    {[readable |-> TRUE, pages |-> pages, is_encrypted |-> FALSE,
      metadata |-> IF Len(pages) = 1 THEN SampleMetadata ELSE None] :
         pages \in PageLists(SimplePageTexts) \cup SimpleSampleDocuments}
    \cup {UnreadablePdf}

MultiPageTexts ==
    {"",
     "breach of liability",
     "breach breach breach breach breach breach breach breach breach breach $1 2 million",
     "$1 $2 $3 $4"}

MultiPdfs ==
    {[readable |-> TRUE, pages |-> pages, is_encrypted |-> FALSE, metadata |-> None] :
         pages \in PageLists(MultiPageTexts)}
    \cup {UnreadablePdf}

(***************************************************************************)
(* Rendered first pages.                                                   *)
(***************************************************************************)
MaxCircles == 3

DensityScale == 3

SignatureContour == [area |-> 6000, w |-> 300, h |-> 100]

ContourLists ==
    {<<>>,
     <<[area |-> 5000, w |-> 300, h |-> 100], [area |-> 9000, w |-> 100, h |-> 100],
       [area |-> 9000, w |-> 700, h |-> 100], [area |-> 9000, w |-> 10, h |-> 0]>>,
     <<[area |-> 5001, w |-> 200, h |-> 100], SignatureContour>>}

CircleLists ==
    {None} \cup {Some([k \in 1..n |-> [x |-> 100 * k, y |-> 100, r |-> 40]]) :
                     n \in 1..MaxCircles}

\* the densities of the four quadrants, each in 0..DensityScale
DensityVectors == [1..4 -> 0..DensityScale]

\* a blank page, an even page, a page with ink in one half, and a page with
\* three times the ink in one half (std/mean = 1/2)
DensitySamples ==
    {[k \in 1..4 |-> 0], [k \in 1..4 |-> DensityScale],
     [k \in 1..4 |-> IF k <= 2 THEN DensityScale ELSE 0],
     [k \in 1..4 |-> IF k <= 2 THEN 3 ELSE 1]}

Images(densities) ==
    [contours : ContourLists, circles : CircleLists, densities : densities,
     hist_peaked : BOOLEAN, keypoints : {500, 501}, malformed : {FALSE}]

MalformedImage ==
    [contours |-> <<>>, circles |-> None, densities |-> [k \in 1..4 |-> 0],
     hist_peaked |-> FALSE, keypoints |-> 0, malformed |-> TRUE]

\* convert_from_path raises, gives no image, or gives the first page
Renderings ==
    {[outcome |-> "raises", image |-> MalformedImage],
     [outcome |-> "empty", image |-> MalformedImage],
     [outcome |-> "image", image |-> MalformedImage]}
    \cup {[outcome |-> "image", image |-> img] : img \in Images(DensitySamples)}

(***************************************************************************)
(* Inputs of a direct call of assess_risks: text_analysis dicts.           *)
(***************************************************************************)
MaxKeywordCount == 21

MaxAmounts == 7

MaxSectionCount == 6

MaxSignatureCount == 1

PlainAmount == "$5,000"

AmountSamples == {"$5M", "$5m", "5 Million", "5 thousand"}

\* n plain amounts
PlainAmounts(n) == [i \in 1..n |-> PlainAmount]

\* lists of up to MaxAmounts monetary strings, at most one of them not plain
AmountLists ==
    {PlainAmounts(n) : n \in 0..MaxAmounts}
    \cup {[PlainAmounts(n) EXCEPT ![k] = a] :
              <<n, k, a>> \in {t \in (1..MaxAmounts) \X (1..MaxAmounts) \X AmountSamples :
                                   t[2] <= t[1]}}

SampleSection ==
    [pattern |-> "unlimited\\s+liability", context |-> "unlimited liability",
     risk_level |-> "HIGH"]

TextAnalyses ==
    {[risk_keywords_found |-> k, keyword_breakdown |-> [kw \in {} |-> 0],
      monetary_amounts |-> m, signature_indicators |-> g,
      high_risk_sections |-> [i \in 1..h |-> SampleSection]] :
         <<k, m, g, h>> \in (0..MaxKeywordCount) \X AmountLists
                            \X (0..MaxSignatureCount) \X (0..MaxSectionCount)}
    \cup {[error |-> "Text extraction error", risk_keywords_found |-> 0]}

Init ==
    /\ pc = "idle"
    /\ analyzer = "none"
    /\ pdf = None
    /\ image = None
    /\ results = [filename |-> "none"]
    /\ raised = "NoException"

\* a caller hands assess_risks a text_analysis dict
AssessRisksCall ==
    /\ pc = "idle"
    /\ \E text_analysis \in TextAnalyses :
           results' = [text_analysis |-> text_analysis,
                       risk_assessment |-> assess_risks(text_analysis)]
    /\ pc' = "done"
    /\ analyzer' = "assess_risks"
    /\ UNCHANGED <<pdf, image, raised>>

(***************************************************************************)
(* SimpleDocumentAnalyzer.analyze_document, one action per stage.          *)
(***************************************************************************)
SimpleAnalyzeDocument ==
    /\ pc = "idle"
    /\ \E doc \in SimplePdfs : pdf' = doc
    /\ analyzer' = "simple"
    /\ results' = [filename |-> "document.pdf", metadata |-> EmptyDict,
                   text_analysis |-> EmptyDict, risk_assessment |-> EmptyDict,
                   recommendations |-> <<>>]
    /\ pc' = "extract_metadata"
    /\ UNCHANGED <<image, raised>>

SimpleExtractMetadata ==
    /\ analyzer = "simple"
    /\ pc = "extract_metadata"
    /\ results' = [results EXCEPT !.metadata = extract_metadata(pdf)]
    /\ pc' = "extract_text_features"
    /\ UNCHANGED <<analyzer, pdf, image, raised>>

SimpleExtractTextFeatures ==
    /\ analyzer = "simple"
    /\ pc = "extract_text_features"
    /\ results' = [results EXCEPT !.text_analysis = simple_extract_text_features(pdf)]
    /\ pc' = "assess_risks"
    /\ UNCHANGED <<analyzer, pdf, image, raised>>

SimpleAssessRisks ==
    /\ analyzer = "simple"
    /\ pc = "assess_risks"
    /\ results' = [results EXCEPT !.risk_assessment = assess_risks(results.text_analysis)]
    /\ pc' = "generate_recommendations"
    /\ UNCHANGED <<analyzer, pdf, image, raised>>

SimpleGenerateRecommendations ==
    /\ analyzer = "simple"
    /\ pc = "generate_recommendations"
    /\ results' = [results EXCEPT
                      !.recommendations = simple_generate_recommendations(results)]
    /\ pc' = "done"
    /\ UNCHANGED <<analyzer, pdf, image, raised>>

(***************************************************************************)
(* MultimodalDocumentAnalyzer.analyze_document, one action per stage.      *)
(***************************************************************************)
MultiAnalyzeDocument ==
    /\ pc = "idle"
    /\ \E doc \in MultiPdfs : pdf' = doc
    /\ analyzer' = "multimodal"
    /\ results' = [filename |-> "document.pdf", visual_analysis |-> EmptyDict,
                   text_analysis |-> EmptyDict, combined_risk_score |-> 0,
                   risk_factors |-> <<>>, recommendations |-> <<>>]
    /\ pc' = "extract_text_features"
    /\ UNCHANGED <<image, raised>>

\* an exception here leaves analyze_document and reaches the caller
MultiExtractTextFeatures ==
    /\ analyzer = "multimodal"
    /\ pc = "extract_text_features"
    /\ IF multi_text_exception(pdf) = "NoException"
       THEN /\ results' = [results EXCEPT !.text_analysis = multi_extract_text_features(pdf)]
            /\ pc' = "extract_visual_features"
            /\ UNCHANGED raised
       ELSE /\ raised' = multi_text_exception(pdf)
            /\ pc' = "raised"
            /\ UNCHANGED results
    /\ UNCHANGED <<analyzer, pdf, image>>

MultiExtractVisualFeatures ==
    /\ analyzer = "multimodal"
    /\ pc = "extract_visual_features"
    /\ \E render \in Renderings :
           /\ image' = render
           /\ results' = [results EXCEPT !.visual_analysis = extract_visual_features(render)]
    /\ pc' = "calculate_combined_risk"
    /\ UNCHANGED <<analyzer, pdf, raised>>

MultiCalculateCombinedRisk ==
    /\ analyzer = "multimodal"
    /\ pc = "calculate_combined_risk"
    /\ results' = [results EXCEPT
                      !.combined_risk_score =
                          calculate_combined_risk(results.text_analysis,
                                                  results.visual_analysis)]
    /\ pc' = "generate_recommendations"
    /\ UNCHANGED <<analyzer, pdf, image, raised>>

MultiGenerateRecommendations ==
    /\ analyzer = "multimodal"
    /\ pc = "generate_recommendations"
    /\ results' = [results EXCEPT
                      !.recommendations = multi_generate_recommendations(results)]
    /\ pc' = "done"
    /\ UNCHANGED <<analyzer, pdf, image, raised>>

\* a caller hands analyze_layout_consistency an image
AnalyzeLayoutCall ==
    /\ pc = "idle"
    /\ \E img \in Images(DensityVectors) :
           /\ img.contours = <<>> /\ img.circles = None
           /\ ~img.hist_peaked /\ img.keypoints = 500
           /\ image' = [outcome |-> "image", image |-> img]
           /\ results' = [layout_score |-> analyze_layout_consistency(img)]
    /\ pc' = "done"
    /\ analyzer' = "analyze_layout_consistency"
    /\ UNCHANGED <<pdf, raised>>

NextScore == AssessRisksCall

SpecScore == Init /\ [][NextScore]_vars

NextSimple ==
    \/ SimpleAnalyzeDocument
    \/ SimpleExtractMetadata
    \/ SimpleExtractTextFeatures
    \/ SimpleAssessRisks
    \/ SimpleGenerateRecommendations

SpecSimple == Init /\ [][NextSimple]_vars

NextMulti ==
    \/ MultiAnalyzeDocument
    \/ MultiExtractTextFeatures
    \/ MultiExtractVisualFeatures
    \/ MultiCalculateCombinedRisk
    \/ MultiGenerateRecommendations

SpecMulti == Init /\ [][NextMulti]_vars

NextLayout == AnalyzeLayoutCall

SpecLayout == Init /\ [][NextLayout]_vars

\* the visual stage, in the pipeline or called on its own
NextVisual == NextMulti \/ NextLayout

SpecVisual == Init /\ [][NextVisual]_vars

Next == NextScore \/ NextSimple \/ NextMulti \/ NextLayout

Spec == Init /\ [][Next]_vars

(***************************************************************************)
(* Properties of assess_risks.                                             *)
(***************************************************************************)
Assessed == "risk_assessment" \in DOMAIN results /\ results.risk_assessment # EmptyDict

\* C1: every sub-score stays within its cap (keyword 0..40, financial 0..30,
\* compliance 0..20, signature 0..10) and the overall score within 0..100,
\* whatever the text_analysis, also when the million/M override fires.
C1_SubScoreCaps ==
    Assessed =>
        LET r == results.risk_assessment
        IN  /\ r.keyword_risk \in 0..40
            /\ r.financial_risk \in 0..30
            /\ r.compliance_risk \in 0..20
            /\ r.signature_risk \in 0..10
            /\ r.overall_risk \in 0..100

\* more keywords and more amounts than the caps allow for, with the override
C1_Witness ==
    /\ Assessed
    /\ analyzer = "assess_risks"
    /\ "error" \notin DOMAIN results.text_analysis
    /\ results.text_analysis.risk_keywords_found * 2 > 40
    /\ Len(results.text_analysis.monetary_amounts) * 5 > 30
    /\ \E i \in 1..Len(results.text_analysis.monetary_amounts) :
           results.text_analysis.monetary_amounts[i] \in {"$5M", "5 Million"}
    /\ Len(results.text_analysis.high_risk_sections) * 4 > 20
    /\ results.risk_assessment.overall_risk = 90

\* C2: keyword_risk = min(40, 2 * keywords), compliance_risk = min(20, 4 *
\* sections), signature_risk = 10 exactly when there is no signature
\* indicator, and overall_risk is the sum of the four sub-scores and nothing
\* else; no keywords give keyword_risk 0, and 3 keywords with no amounts, no
\* sections and no signature indicators give 6, 0, 0, 10, overall 16, LOW.
C2_TextOnlyFormula ==
    Assessed =>
        LET t == results.text_analysis
            r == results.risk_assessment
            keywords == IF "risk_keywords_found" \in DOMAIN t THEN t.risk_keywords_found ELSE 0
            sections == IF "high_risk_sections" \in DOMAIN t THEN Len(t.high_risk_sections) ELSE 0
            amounts == IF "monetary_amounts" \in DOMAIN t THEN Len(t.monetary_amounts) ELSE 0
            indicators == IF "signature_indicators" \in DOMAIN t THEN t.signature_indicators ELSE 0
        IN  /\ r.keyword_risk = (IF 2 * keywords < 40 THEN 2 * keywords ELSE 40)
            /\ r.compliance_risk = (IF 4 * sections < 20 THEN 4 * sections ELSE 20)
            /\ r.signature_risk = (IF indicators = 0 THEN 10 ELSE 0)
            /\ r.overall_risk = r.keyword_risk + r.financial_risk
                                + r.compliance_risk + r.signature_risk
            /\ (keywords = 0 => r.keyword_risk = 0)
            /\ (keywords = 3 /\ amounts = 0 /\ sections = 0 /\ indicators = 0
                  => r = [keyword_risk |-> 6, financial_risk |-> 0, compliance_risk |-> 0,
                          signature_risk |-> 10, overall_risk |-> 16, risk_level |-> "LOW"])

\* the scenario: 3 keyword occurrences and nothing else
C2_Witness ==
    /\ Assessed
    /\ analyzer = "assess_risks"
    /\ "error" \notin DOMAIN results.text_analysis
    /\ results.text_analysis.risk_keywords_found = 3
    /\ results.text_analysis.monetary_amounts = <<>>
    /\ results.text_analysis.high_risk_sections = <<>>
    /\ results.text_analysis.signature_indicators = 0
    /\ results.risk_assessment.overall_risk = 16
    /\ results.risk_assessment.risk_level = "LOW"

\* C4: the level is decided by overall_risk alone: HIGH exactly from 70 up,
\* MEDIUM exactly from 40 to 69, LOW exactly below 40.
C4_LevelThresholds ==
    Assessed =>
        LET r == results.risk_assessment
        IN  /\ r.risk_level \in {"HIGH", "MEDIUM", "LOW"}
            /\ (r.risk_level = "HIGH" <=> r.overall_risk >= 70)
            /\ (r.risk_level = "MEDIUM" <=> (r.overall_risk >= 40 /\ r.overall_risk < 70))
            /\ (r.risk_level = "LOW" <=> r.overall_risk < 40)

\* a score exactly on the HIGH threshold
C4_Witness ==
    /\ Assessed
    /\ results.risk_assessment.overall_risk = 70
    /\ results.risk_assessment.risk_level = "HIGH"

\* C3: financial_risk is 0 without monetary strings, 30 if a retained string
\* contains "million" in any case or ends in the suffix "M", and otherwise
\* min(30, 5 * number of retained strings).
C3_FinancialRisk ==
    (Assessed /\ analyzer = "simple" /\ "error" \notin DOMAIN results.text_analysis) =>
        LET amounts == results.text_analysis.monetary_amounts
            n == Len(amounts)
            override == \E i \in 1..n :
                            \/ Contains(Lower(amounts[i]), "million")
                            \/ Char(amounts[i], Len(amounts[i])) = "M"
        IN  results.risk_assessment.financial_risk =
                (IF n = 0 THEN 0
                 ELSE IF override THEN 30
                 ELSE IF 5 * n < 30 THEN 5 * n ELSE 30)

\* four retained amounts, one of them with "million": 30, not the count's 20
C3_Witness ==
    /\ Assessed
    /\ analyzer = "simple"
    /\ "error" \notin DOMAIN results.text_analysis
    /\ Len(results.text_analysis.monetary_amounts) = 4
    /\ \E i \in 1..4 : Contains(Lower(results.text_analysis.monetary_amounts[i]), "million")
    /\ results.risk_assessment.financial_risk = 30

(***************************************************************************)
(* Properties of the multimodal pipeline.                                  *)
(***************************************************************************)
Combined == analyzer = "multimodal" /\ pc \in {"generate_recommendations", "done"}

VisualDone ==
    analyzer = "multimodal"
    /\ pc \in {"calculate_combined_risk", "generate_recommendations", "done"}

\* 0.6 * text + 0.4 * visual + penalties before the clamp, in tenths, from the
\* features in results
CombinedTerms ==
    LET t == results.text_analysis
        v == results.visual_analysis
        text_score == IF 5 * t.risk_keywords_found < 100
                      THEN 5 * t.risk_keywords_found ELSE 100
        visual_score == IF "visual_risk_score" \in DOMAIN v THEN v.visual_risk_score ELSE 0
        no_signature == IF "signatures_detected" \in DOMAIN v
                        THEN v.signatures_detected = 0 ELSE TRUE
    IN  6 * text_score + 4 * visual_score
        + (IF no_signature THEN 100 ELSE 0)
        + (IF Len(t.monetary_amounts) > 3 THEN 50 ELSE 0)

\* C5: the combined score is 0.6 * text_score + 0.4 * visual_score, plus 10 if
\* no signature region was detected, plus 5 if more than 3 monetary amounts
\* were found, clamped to [0, 100], with text_score = min(100, 5 * keywords);
\* it is never negative and never above 100.  (Scores are in tenths.)
C5_CombinedRisk ==
    Combined =>
        /\ results.combined_risk_score =
               (IF CombinedTerms < 0 THEN 0
                ELSE IF CombinedTerms > 1000 THEN 1000 ELSE CombinedTerms)
        /\ results.combined_risk_score \in 0..1000

\* the terms add up to more than 100 and the score is 100
C5_Witness ==
    /\ Combined
    /\ results.text_analysis.text_risk_score = 100
    /\ Len(results.text_analysis.monetary_amounts) > 3
    /\ "error" \notin DOMAIN results.visual_analysis
    /\ results.visual_analysis.signatures_detected = 0
    /\ CombinedTerms > 1000
    /\ results.combined_risk_score = 1000

\* whether 1 - std/mean of the densities of the rendered page is below 0.7:
\* the mean is not 0 and std/mean > 3/10
LowConsistency ==
    LET d == image.image.densities
        total == d[1] + d[2] + d[3] + d[4]
        squares == d[1] * d[1] + d[2] * d[2] + d[3] * d[3] + d[4] * d[4]
    IN  total > 0 /\ 100 * (4 * squares - total * total) > 9 * total * total

VisualSucceeded == VisualDone /\ "error" \notin DOMAIN results.visual_analysis

\* C6: when visual extraction succeeds, visual_risk_score is 30 if no
\* signature region was detected, plus 20 if more than 2 stamp regions were,
\* plus 25 if the layout consistency is below 0.7, and nothing else: one of
\* 0, 20, 25, 30, 45, 50, 55, 75.
C6_VisualRiskScore ==
    VisualSucceeded =>
        LET v == results.visual_analysis
        IN  /\ v.visual_risk_score =
                   (IF v.signatures_detected = 0 THEN 30 ELSE 0)
                   + (IF v.stamps_detected > 2 THEN 20 ELSE 0)
                   + (IF LowConsistency THEN 25 ELSE 0)
            /\ v.visual_risk_score \in {0, 20, 25, 30, 45, 50, 55, 75}

\* 0 signatures, 3 stamps, consistency 0.5: 75
C6_Witness ==
    /\ VisualSucceeded
    /\ results.visual_analysis.signatures_detected = 0
    /\ results.visual_analysis.stamps_detected = 3
    /\ results.visual_analysis.layout_consistency_score = 50
    /\ results.visual_analysis.visual_risk_score = 75

\* C7: every failure of rendering or detection (the renderer raises, gives no
\* image, or a detector raises) ends in a visual_analysis with error set and
\* visual_risk_score = 50, and no exception leaves extract_visual_features.
C7_VisualFailureFallback ==
    (VisualDone /\ (image.outcome # "image" \/ image.image.malformed)) =>
        /\ raised = "NoException"
        /\ "error" \in DOMAIN results.visual_analysis
        /\ "visual_risk_score" \in DOMAIN results.visual_analysis
        /\ results.visual_analysis.visual_risk_score = 50

(***************************************************************************)
(* Properties of error handling in text extraction.                        *)
(***************************************************************************)
Analyzing == analyzer \in {"simple", "multimodal"}

\* C8: if the PDF cannot be parsed, analyze_document surfaces the failure to
\* its caller and returns no result: nothing is assessed and nothing is
\* recommended for that document; and only a parse failure aborts an analysis.
C8_ParseFailureSurfaced ==
    Analyzing =>
        /\ ~pdf.readable =>
               /\ pc # "done"
               /\ Get(results, "risk_assessment", EmptyDict) = EmptyDict
               /\ results.recommendations = <<>>
        /\ raised # "NoException" => ~pdf.readable

\* the document with every absent page text replaced by the empty string
AbsentAsEmpty(doc) ==
    [doc EXCEPT !.pages = [n \in 1..Len(doc.pages) |->
                              IF doc.pages[n] = None THEN Some("") ELSE doc.pages[n]]]

\* C9: a page whose text is absent (None or empty) counts as the empty string
\* and extraction goes on with the other pages: no exception comes of it, and
\* the features are those of the document with "" for the absent text.
C9_AbsentPageTextIsEmpty ==
    (Analyzing /\ pdf.readable) =>
        /\ raised = "NoException"
        /\ results.text_analysis # EmptyDict =>
               results.text_analysis =
                   (IF analyzer = "simple"
                    THEN simple_extract_text_features(AbsentAsEmpty(pdf))
                    ELSE multi_extract_text_features(AbsentAsEmpty(pdf)))

(***************************************************************************)
(* Properties of analyze_layout_consistency.                               *)
(***************************************************************************)
LayoutAnalyzed == analyzer = "analyze_layout_consistency" /\ pc = "done"

\* C10: the layout consistency is in [0, 1] (0..1000 thousandths) for every
\* four quadrant densities, also when all are 0 and when their standard
\* deviation exceeds their mean.
C10_LayoutConsistencyRange ==
    LayoutAnalyzed => results.layout_score \in 0..1000

\* densities whose standard deviation exceeds their mean: 1 - std/mean < 0
C10_Witness ==
    /\ LayoutAnalyzed
    /\ LET d == image.image.densities
           total == d[1] + d[2] + d[3] + d[4]
           squares == d[1] * d[1] + d[2] * d[2] + d[3] * d[3] + d[4] * d[4]
       IN  total > 0 /\ 4 * squares - total * total > total * total
    /\ results.layout_score = 0

(***************************************************************************)
(* Properties of the layout consistency of a blank page.                   *)
(***************************************************************************)
\* the sum of the four quadrant densities of the image at hand
DensityTotal ==
    LET d == image.image.densities IN d[1] + d[2] + d[3] + d[4]

\* 16 times their variance: 4 * sum of squares - square of the sum
DensitySpread ==
    LET d == image.image.densities
    IN  4 * (d[1] * d[1] + d[2] * d[2] + d[3] * d[3] + d[4] * d[4])
        - DensityTotal * DensityTotal

\* v is clamp(1 - std/mean) in thousandths, rounded down, for a mean above 0:
\* 0 when std >= mean, else (999 - v)/1000 < std/mean <= (1000 - v)/1000
IsClampedConsistency(v) ==
    IF DensitySpread >= DensityTotal * DensityTotal
    THEN v = 0
    ELSE /\ v \in 0..1000
         /\ (1000 - v) * (1000 - v) * DensityTotal * DensityTotal >= 1000000 * DensitySpread
         /\ v < 1000 =>
                (999 - v) * (999 - v) * DensityTotal * DensityTotal < 1000000 * DensitySpread

\* the visual risk score without any layout contribution
ScoreWithoutLayout ==
    (IF results.visual_analysis.signatures_detected = 0 THEN 30 ELSE 0)
    + (IF results.visual_analysis.stamps_detected > 2 THEN 20 ELSE 0)

\* C11 as stated: when the mean of the four quadrant densities is 0 the
\* consistency is 0, so a blank page is below 0.7 and gets the +25 of
\* visual_risk_score; otherwise the consistency is clamp(1 - std/mean).
C11_BlankPageConsistencyZero ==
    /\ LayoutAnalyzed =>
           IF DensityTotal = 0 THEN results.layout_score = 0
           ELSE IsClampedConsistency(results.layout_score)
    /\ (VisualSucceeded /\ DensityTotal = 0) =>
           /\ results.visual_analysis.layout_consistency_score = 0
           /\ results.visual_analysis.visual_risk_score = ScoreWithoutLayout + 25

\* C11 amended: when the mean of the four quadrant densities is 0 the ratio
\* std/mean is taken as 0 and the consistency is 1, so a blank page is not
\* below 0.7 and gets no +25 in visual_risk_score; otherwise the consistency
\* is clamp(1 - std/mean).
C11_BlankPageConsistencyOne ==
    /\ LayoutAnalyzed =>
           IF DensityTotal = 0 THEN results.layout_score = 1000
           ELSE IsClampedConsistency(results.layout_score)
    /\ (VisualSucceeded /\ DensityTotal = 0) =>
           /\ results.visual_analysis.layout_consistency_score = 100
           /\ results.visual_analysis.visual_risk_score = ScoreWithoutLayout

\* a blank page without signature or stamps went through the visual stage:
\* consistency 1.0 and score 30
C11_Witness ==
    /\ VisualSucceeded
    /\ DensityTotal = 0
    /\ results.visual_analysis.signatures_detected = 0
    /\ results.visual_analysis.stamps_detected = 0
    /\ results.visual_analysis.layout_consistency_score = 100
    /\ results.visual_analysis.visual_risk_score = 30

(***************************************************************************)
(* Properties of the recommendations of SimpleDocumentAnalyzer.            *)
(***************************************************************************)
SimpleDone == analyzer = "simple" /\ pc = "done"

\* the line that names a level
LevelLine(level) ==
    IF level = "HIGH" THEN "HIGH RISK: Strongly recommend legal review before signing"
    ELSE IF level = "MEDIUM" THEN "MEDIUM RISK: Review highlighted sections carefully"
    ELSE "LOW RISK: Document appears standard, but always review before signing"

ExtremeCautionLine == "Multiple risk factors detected - proceed with extreme caution"

LegalCounselLine == "Consider consulting legal counsel for specific clauses"

\* the lines of a recommendation list that speak of the level as a whole
LevelKeyedLines(recs) ==
    {k \in 1..Len(recs) :
        recs[k] \in {LevelLine("HIGH"), LevelLine("MEDIUM"), LevelLine("LOW"),
                     ExtremeCautionLine, LegalCounselLine}}

\* C12 as stated: the recommendations begin with the one line of the risk
\* level (a wording of its own for HIGH, MEDIUM and LOW); only HIGH appends a
\* second level line ("proceed with extreme caution"), so there are 2
\* level-keyed lines for HIGH, 1 for MEDIUM and 1 for LOW, and the list is
\* never empty.
C12_SecondLevelLineOnlyForHigh ==
    SimpleDone =>
        LET recs == results.recommendations
            level == results.risk_assessment.risk_level
        IN  /\ recs # <<>>
            /\ recs[1] = LevelLine(level)
            /\ level = "HIGH" => Len(recs) >= 2 /\ recs[2] = ExtremeCautionLine
            /\ LevelKeyedLines(recs) = (IF level = "HIGH" THEN {1, 2} ELSE {1})

\* C12 amended: the recommendations begin with the one line of the risk level
\* (a wording of its own for HIGH, MEDIUM and LOW); HIGH appends a second
\* level line ("proceed with extreme caution") and MEDIUM appends one too
\* ("consider consulting legal counsel"), so there are 2 level-keyed lines for
\* HIGH and for MEDIUM, 1 for LOW, and the list is never empty.
C12_LevelLines ==
    SimpleDone =>
        LET recs == results.recommendations
            level == results.risk_assessment.risk_level
        IN  /\ recs # <<>>
            /\ recs[1] = LevelLine(level)
            /\ LevelLine("HIGH") # LevelLine("MEDIUM")
            /\ LevelLine("MEDIUM") # LevelLine("LOW")
            /\ LevelLine("HIGH") # LevelLine("LOW")
            /\ level = "HIGH" => Len(recs) >= 2 /\ recs[2] = ExtremeCautionLine
            /\ level = "MEDIUM" => Len(recs) >= 2 /\ recs[2] = LegalCounselLine
            /\ LevelKeyedLines(recs) = (IF level \in {"HIGH", "MEDIUM"} THEN {1, 2} ELSE {1})

\* a MEDIUM document got its two level lines
C12_Witness ==
    /\ SimpleDone
    /\ results.risk_assessment.risk_level = "MEDIUM"
    /\ Len(results.recommendations) >= 2
    /\ results.recommendations[1] = LevelLine("MEDIUM")
    /\ results.recommendations[2] = LegalCounselLine

\* the recommendations after the level lines
AdvisoryLines ==
    LET recs == results.recommendations
    IN  SubSeq(recs, Cardinality(LevelKeyedLines(recs)) + 1, Len(recs))

\* the advisories in rule order, each with its trigger in the result
AdvisoryTable ==
    LET ra == results.risk_assessment
        ta == results.text_analysis
        sections == IF "high_risk_sections" \in DOMAIN ta THEN ta.high_risk_sections ELSE <<>>
        keys == IF "keyword_breakdown" \in DOMAIN ta THEN DOMAIN ta.keyword_breakdown ELSE {}
    IN  <<[line |-> "No signature indicators found - ensure proper execution",
           trigger |-> ra.signature_risk > 0],
          [line |-> "High financial exposure detected - verify all monetary commitments",
           trigger |-> ra.financial_risk >= 20],
          [line |-> "Multiple compliance concerns - ensure regulatory alignment",
           trigger |-> ra.compliance_risk >= 15],
          [line |-> "Numerous high-risk sections found - detailed review essential",
           trigger |-> Len(sections) > 5],
          [line |-> "Indemnification clauses present - review liability exposure",
           trigger |-> "indemnify" \in keys],
          [line |-> "Review termination clauses and exit strategies",
           trigger |-> "termination" \in keys],
          [line |-> "Confidentiality obligations present - ensure compliance capability",
           trigger |-> "confidential" \in keys \/ "proprietary" \in keys]>>

\* C13: after the level lines the recommendations are the advisories of the
\* rule table whose trigger holds, in the table's order and each once: no
\* signature iff signature_risk > 0, financial exposure iff financial_risk >=
\* 20, compliance iff compliance_risk >= 15, numerous sections iff more than 5
\* sections, indemnification iff 'indemnify' is a key of keyword_breakdown,
\* termination iff 'termination' is, confidentiality iff 'confidential' or
\* 'proprietary' is; no advisory appears whose trigger is false.
C13_AdvisoryRuleTable ==
    SimpleDone =>
        LET fired == SelectSeq(AdvisoryTable, LAMBDA row : row.trigger)
        IN  AdvisoryLines = [k \in 1..Len(fired) |-> fired[k].line]

\* financial_risk is exactly 20 and the financial advisory follows the
\* signature advisory; nothing else fired
C13_Witness ==
    /\ SimpleDone
    /\ results.risk_assessment.financial_risk = 20
    /\ AdvisoryLines = <<"No signature indicators found - ensure proper execution",
                         "High financial exposure detected - verify all monetary commitments">>

(***************************************************************************)
(* Properties of the text features of SimpleDocumentAnalyzer.              *)
(***************************************************************************)
\* text features were extracted from a PDF that could be read
SimpleExtracted ==
    /\ analyzer = "simple"
    /\ pc \in {"assess_risks", "generate_recommendations", "done"}
    /\ pdf.readable

\* the text the features are extracted from
ExtractedText == simple_full_text(pdf.pages)

PatternNames == {high_risk_patterns[k].pattern : k \in 1..Len(high_risk_patterns)}

\* the place of a pattern in the pattern list
PatternIndex(name) ==
    CHOOSE k \in 1..Len(high_risk_patterns) : high_risk_patterns[k].pattern = name

\* the number of distinct configured keywords in a paragraph
DistinctKeywords(para) ==
    Cardinality({k \in 1..Len(risk_keywords) : Contains(Lower(para), risk_keywords[k])})

\* every phrase-pattern section of the text, by pattern and then by position
AllPatternSections ==
    Flatten([k \in 1..Len(high_risk_patterns) |->
                PatternSections(ExtractedText, high_risk_patterns[k])])

\* the blank-line-delimited paragraphs with 3 distinct keywords or more
RiskyParagraphs ==
    SelectSeq(Split(ExtractedText, "\n\n"), LAMBDA para : DistinctKeywords(para) >= 3)

\* C14: the high-risk sections are the first 10 of all phrase-pattern matches
\* (in pattern-list order, then by position, each HIGH) followed by one
\* section for each paragraph with at least 3 distinct keywords (in paragraph
\* order, MEDIUM for 3 or 4 keywords, HIGH for 5 or more); no paragraph
\* section precedes a pattern section, there are at most 10, and a paragraph
\* with fewer than 3 distinct keywords gives none.
C14_HighRiskSections ==
    SimpleExtracted =>
        LET sections == results.text_analysis.high_risk_sections
            np == Min(10, Len(AllPatternSections))
            nq == Min(10 - np, Len(RiskyParagraphs))
        IN  /\ Len(sections) = np + nq
            /\ Len(sections) <= 10
            /\ \A k \in 1..np :
                   /\ sections[k] = AllPatternSections[k]
                   /\ sections[k].pattern \in PatternNames
                   /\ sections[k].risk_level = "HIGH"
                   /\ k > 1 => PatternIndex(sections[k - 1].pattern)
                                    <= PatternIndex(sections[k].pattern)
            /\ \A k \in 1..nq :
                   LET section == sections[np + k]
                       n == DistinctKeywords(RiskyParagraphs[k])
                   IN  /\ section.pattern = ToString(n) \o " risk keywords"
                       /\ section.pattern \notin PatternNames
                       /\ section.risk_level = (IF n \in {3, 4} THEN "MEDIUM" ELSE "HIGH")
                       /\ Len(RiskyParagraphs[k]) <= 300 =>
                              section.context = RiskyParagraphs[k]

\* nine pattern sections, the later pattern of the list after the earlier
\* one, then the 5-keyword paragraph; the 3-keyword paragraph is cut off
C14_Witness ==
    /\ SimpleExtracted
    /\ Len(AllPatternSections) = 9
    /\ Len(RiskyParagraphs) = 2
    /\ Len(results.text_analysis.high_risk_sections) = 10
    /\ results.text_analysis.high_risk_sections[7].pattern = "unlimited\\s+liability"
    /\ results.text_analysis.high_risk_sections[8].pattern = "waive\\s+all\\s+rights"
    /\ results.text_analysis.high_risk_sections[10].pattern = "5 risk keywords"
    /\ results.text_analysis.high_risk_sections[10].risk_level = "HIGH"

KeywordSet == {risk_keywords[k] : k \in 1..Len(risk_keywords)}

\* the values of a dict with string keys, summed
RECURSIVE SumValues(_)
SumValues(d) ==
    IF DOMAIN d = {} THEN 0
    ELSE LET k == CHOOSE x \in DOMAIN d : TRUE
         IN  d[k] + SumValues([x \in DOMAIN d \ {k} |-> d[x]])

\* C15: keyword_breakdown holds exactly the configured keywords whose
\* case-insensitive substring count in the text is above 0, each with that
\* count (no key maps to 0, every key is a configured keyword), and
\* risk_keywords_found is the sum of its values; with no keyword in the text
\* the breakdown is empty and the total 0.
C15_KeywordBreakdown ==
    SimpleExtracted =>
        LET breakdown == results.text_analysis.keyword_breakdown
            found == results.text_analysis.risk_keywords_found
            low == Lower(ExtractedText)
        IN  /\ DOMAIN breakdown = {kw \in KeywordSet : Count(low, kw) > 0}
            /\ \A kw \in DOMAIN breakdown : breakdown[kw] = Count(low, kw) /\ breakdown[kw] > 0
            /\ found = SumValues(breakdown)
            /\ (\A kw \in KeywordSet : ~Contains(low, kw)) =>
                   breakdown = EmptyDict /\ found = 0

\* "Liability, liability, breach": liability 2, breach 1, 3 in all
C15_Witness ==
    /\ SimpleExtracted
    /\ DOMAIN results.text_analysis.keyword_breakdown = {"liability", "breach"}
    /\ results.text_analysis.keyword_breakdown["liability"] = 2
    /\ results.text_analysis.keyword_breakdown["breach"] = 1
    /\ results.text_analysis.risk_keywords_found = 3

\* every match of the four money rules, rule by rule
AllMoneyMatches ==
    FindAllMoney(1, ExtractedText, 1) \o FindAllMoney(2, ExtractedText, 1)
    \o FindAllMoney(3, ExtractedText, 1) \o FindAllMoney(4, ExtractedText, 1)

\* the money rule a retained string comes from, by its first character
MoneyRuleOf(amount) ==
    IF Char(amount, 1) = "$" THEN 1
    ELSE IF Char(amount, 1) \in Digit THEN 2
    ELSE IF LowerChar(Char(amount, 1)) = "u" THEN 3
    ELSE 4

\* list is the first n elements of all
IsFirst(list, all, n) ==
    /\ Len(list) = Min(n, Len(all))
    /\ Len(list) <= n
    /\ \A k \in 1..Len(list) : list[k] = all[k]

\* the strings of list occur in text one after the other, from index i on
RECURSIVE InTextOrder(_, _, _)
InTextOrder(text, list, i) ==
    \/ list = <<>>
    \/ /\ Find(text, Head(list), i) > 0
       /\ InTextOrder(text, Tail(list), Find(text, Head(list), i) + Len(Head(list)))

\* C16: the capped lists keep their caps and are prefixes of the full match
\* sequences: monetary_amounts is the first 10 of the matches of the four
\* money rules concatenated in rule order, dates_found the first 10 dates and
\* emails_found the first 5 addresses in text order; every count is
\* non-negative.
C16_CappedLists ==
    SimpleExtracted =>
        LET ta == results.text_analysis
        IN  /\ IsFirst(ta.monetary_amounts, AllMoneyMatches, 10)
            /\ \A k \in 2..Len(ta.monetary_amounts) :
                   MoneyRuleOf(ta.monetary_amounts[k - 1]) <= MoneyRuleOf(ta.monetary_amounts[k])
            /\ IsFirst(ta.dates_found, FindAllPattern("date", ExtractedText, 1), 10)
            /\ InTextOrder(ExtractedText, ta.dates_found, 1)
            /\ IsFirst(ta.emails_found, FindAllPattern("email", ExtractedText, 1), 5)
            /\ InTextOrder(ExtractedText, ta.emails_found, 1)
            /\ ta.total_characters >= 0 /\ ta.total_words >= 0 /\ ta.page_count >= 0
            /\ ta.risk_keywords_found >= 0 /\ ta.signature_indicators >= 0

\* 12 amounts in the text: the 9 of the first rule and the 1 of the second
\* are kept, those of the third and fourth rule, earlier in the text, are cut
C16_Witness ==
    /\ SimpleExtracted
    /\ Len(AllMoneyMatches) = 12
    /\ Len(results.text_analysis.monetary_amounts) = 10
    /\ results.text_analysis.monetary_amounts[1] = "$1"
    /\ results.text_analysis.monetary_amounts[10] = "2 million"

(***************************************************************************)
(* Properties of the recommendations of MultimodalDocumentAnalyzer.        *)
(***************************************************************************)
MultiDone == analyzer = "multimodal" /\ pc = "done"

\* the level line of a combined score (in tenths)
CombinedLevelLine(score) ==
    IF score >= 700 THEN "HIGH RISK: Recommend legal review before signing"
    ELSE IF score >= 400 THEN "MEDIUM RISK: Review highlighted sections carefully"
    ELSE "LOW RISK: Standard document, safe to proceed"

NoSignaturesLine == "No signatures detected - ensure proper signing"

AnomaliesLine == "Visual anomalies detected - verify document authenticity"

\* where a line stands in a list
Places(recs, line) == {k \in 1..Len(recs) : recs[k] = line}

\* the visual analysis reports no signature region
ZeroSignatures ==
    ~("signatures_detected" \in DOMAIN results.visual_analysis
      /\ results.visual_analysis.signatures_detected > 0)

\* the visual analysis reports an anomaly
SomeAnomaly ==
    "anomalies" \in DOMAIN results.visual_analysis
    /\ Len(results.visual_analysis.anomalies) > 0

\* C17: the recommendations of the combined mode start with the one level
\* line of the combined score (HIGH from 70, MEDIUM from 40, else LOW); the
\* 'no signature' advisory is there iff zero signatures were detected, the
\* visual-anomaly advisory iff the anomaly list is not empty, and the
\* signature advisory comes before the anomaly advisory.
C17_CombinedRecommendations ==
    MultiDone =>
        LET recs == results.recommendations
        IN  /\ recs # <<>>
            /\ recs[1] = CombinedLevelLine(results.combined_risk_score)
            /\ \A k \in 2..Len(recs) :
                   recs[k] \notin {CombinedLevelLine(0), CombinedLevelLine(400),
                                   CombinedLevelLine(700)}
            /\ Places(recs, NoSignaturesLine) # {} <=> ZeroSignatures
            /\ Places(recs, AnomaliesLine) # {} <=> SomeAnomaly
            /\ \A i \in Places(recs, NoSignaturesLine) :
                   \A j \in Places(recs, AnomaliesLine) : i < j

\* a combined score of exactly 70: the HIGH line, then the signature advisory
\* and, after it, the anomaly advisory
C17_Witness ==
    /\ MultiDone
    /\ results.combined_risk_score = 700
    /\ results.recommendations[1] = "HIGH RISK: Recommend legal review before signing"
    /\ \E i \in Places(results.recommendations, NoSignaturesLine) :
           \E j \in Places(results.recommendations, AnomaliesLine) : i < j

\* visual extraction ended in the error state that carries the score 50
VisualFallback ==
    /\ VisualDone
    /\ "error" \in DOMAIN results.visual_analysis
    /\ "visual_risk_score" \in DOMAIN results.visual_analysis
    /\ results.visual_analysis.visual_risk_score = 50

NumerousSectionsLine == "Numerous high-risk sections found - detailed review essential"

ComplianceLine == "Multiple compliance concerns - ensure regulatory alignment"

\* the number of high-risk sections of the result
SectionCount ==
    IF "high_risk_sections" \in DOMAIN results.text_analysis
    THEN Len(results.text_analysis.high_risk_sections) ELSE 0

\* C19: in every result of analyze_document, when the 'numerous high-risk
\* sections' advisory is present (more than 5 sections) the 'compliance
\* concerns' advisory is present too and stands directly before it, and
\* compliance_risk is at its cap 20; and compliance_risk >= 15 iff there are
\* at least 4 sections, the list being capped at 10 and compliance_risk being
\* min(20, 4 * count).
C19_NumerousImpliesCompliance ==
    SimpleDone =>
        LET recs == results.recommendations
            compliance == results.risk_assessment.compliance_risk
        IN  /\ Places(recs, NumerousSectionsLine) # {} <=> SectionCount > 5
            /\ \A j \in Places(recs, NumerousSectionsLine) :
                   /\ j > 1
                   /\ recs[j - 1] = ComplianceLine
                   /\ compliance = 20
            /\ compliance >= 15 <=> SectionCount >= 4
            /\ Places(recs, ComplianceLine) # {} <=> SectionCount >= 4
            /\ SectionCount <= 10
            /\ compliance = Min(20, 4 * SectionCount)

\* six sections: the compliance advisory directly before the numerous one
C19_Witness ==
    /\ SimpleDone
    /\ SectionCount = 6
    /\ results.risk_assessment.compliance_risk = 20
    /\ \E j \in Places(results.recommendations, NumerousSectionsLine) :
           j > 1 /\ results.recommendations[j - 1] = ComplianceLine
====
